---------------------------- MODULE Spec2Model ----------------------------
(***************************************************************************)
(* Model of oslo.version: the config-file locator (_get_config_dirs,       *)
(* _search_dirs, _find_config_files) and the VersionInfo class, in its     *)
(* property-style form (oslo/version/version.py) and in its legacy form    *)
(* (pbr/version.py).                                                       *)
(*                                                                         *)
(* Strings are sequences of one-character strings, so that split('.'),     *)
(* startswith, slicing, '%s%s' formatting and os.path.join are modelled by *)
(* what they do.  Python's None is the one-element sequence <<"None">>,    *)
(* whose element is not a character, so it differs from every string,      *)
(* the empty string <<>> included.                                         *)
(***************************************************************************)
EXTENDS Integers, Sequences, FiniteSets, TLC

None == <<"None">>

(***************************************************************************)
(* Bounds.                                                                 *)
(***************************************************************************)
MaxLen == 3        \* longest release string drawn by InitVersion
MaxCalls == 2      \* accessor calls made on one instance
MaxFiles == 2      \* config files that exist at the same time
MaxChanges == 1    \* changes of the environment between the calls

(***************************************************************************)
(* String helpers.                                                         *)
(***************************************************************************)
Digits == {"0", "1", "2", "3", "4", "5", "6", "7", "8", "9"}

\* str.isdigit() of one character
IsDigit(c) == c \in Digits

\* s.startswith(pre)
StartsWith(s, pre) ==
    /\ Len(s) >= Len(pre)
    /\ SubSeq(s, 1, Len(pre)) = pre

\* s.split('.'): always at least one part, empty parts are kept
RECURSIVE Split(_)
Split(s) ==
    IF \A i \in 1..Len(s) : s[i] # "."
    THEN <<s>>
    ELSE LET i == CHOOSE k \in 1..Len(s) :
                     /\ s[k] = "."
                     /\ \A j \in 1..(k - 1) : s[j] # "."
         IN  <<SubSeq(s, 1, i - 1)>> \o Split(SubSeq(s, i + 1, Len(s)))

\* ".".join(parts)
RECURSIVE Join(_)
Join(parts) ==
    IF parts = <<>> THEN <<>>
    ELSE IF Len(parts) = 1 THEN parts[1]
    ELSE parts[1] \o <<".">> \o Join(Tail(parts))

(***************************************************************************)
(* The loop of VersionInfo.version: parts of the release are appended      *)
(* while part[0].isdigit(); part[0] of an empty part raises IndexError.    *)
(***************************************************************************)
RECURSIVE VersionLoop(_, _)
VersionLoop(todo, parts) ==
    IF todo = <<>> THEN [exc |-> "ok", val |-> Join(parts)]
    ELSE LET part == Head(todo)
         IN  IF part = <<>> THEN [exc |-> "IndexError", val |-> None]
             ELSE IF IsDigit(part[1])
                  THEN VersionLoop(Tail(todo), Append(parts, part))
                  ELSE [exc |-> "ok", val |-> Join(parts)]

ShortVersion(release) == VersionLoop(Split(release), <<>>)

(***************************************************************************)
(* Paths are sequences of components; an absolute path starts at the root. *)
(***************************************************************************)
Home == << <<"h">> >>
Tilde == <<"~">>
Etc == <<"e", "t", "c">>
Dot == <<".">>

\* os.path.join(d, name), name a single relative component
PathJoin(d, name) == Append(d, name)

\* os.path.basename(p)
Basename(p) == IF p = <<>> THEN <<>> ELSE p[Len(p)]

\* _expand_path: a leading ~ becomes the home directory
_expand_path(p) ==
    IF p # <<>> /\ Head(p) = Tilde THEN Home \o Tail(p) ELSE p

\* truth value of a Python string or None
Truthy(s) == s # None /\ s # <<>>

_get_config_dirs(project) ==
    IF Truthy(project)
    THEN << _expand_path(PathJoin(<<Tilde>>, Dot \o project)),
            _expand_path(<<Tilde>>),
            PathJoin(<<Etc>>, project),
            <<Etc>> >>
    ELSE << _expand_path(<<Tilde>>), <<Etc>> >>


(***************************************************************************)
(* State.                                                                  *)
(***************************************************************************)
VARIABLES
    index,      \* pkg_resources working set: the installed distributions
    packaging,  \* pbr.packaging: None when it cannot be imported, else the
                \* version packaging.get_version returns
    files,      \* the filesystem: existing path |-> content
    argv,       \* sys.argv
    self,       \* the VersionInfo instance (oslo/version/version.py)
    legacy,     \* the VersionInfo instance (pbr/version.py)
    cnt,        \* the accesses the latest call made to each collaborator
    queries,    \* lookups in the working set made since construction
    ncalls,     \* accessor calls made so far
    nchanges,   \* changes of the environment made so far
    last,       \* the latest accessor call: name, argument, exception,
                \* return value, and nchanges when it was made
    first,      \* accessor |-> the value its first successful call returned
    pc,         \* thread |-> position in vendor/product/suffix
    loc,        \* thread |-> its local variables
    args,       \* arguments of the latest _find_config_files call
    found       \* what that call returned

vars == <<index, packaging, files, argv, self, legacy, cnt, queries, ncalls,
          nchanges, last, first, pc, loc, args, found>>

(***************************************************************************)
(* The filesystem and _search_dirs / _find_config_files.                   *)
(***************************************************************************)
\* os.path.exists(path)
Exists(path) == path \in DOMAIN files

\* the value _search_dirs returns when nothing is found (None); no path
\* built by os.path.join is empty, and both are false in "if f"
NoPath == <<>>

\* _search_dirs scanning to the end: the last directory holding the file
RECURSIVE SearchDirsLastHit(_, _, _)
SearchDirsLastHit(dirs, basename, extension) ==
    IF dirs = <<>> THEN [val |-> NoPath, fs |-> 0]
    ELSE LET path == PathJoin(Head(dirs), basename \o extension)
             rest == SearchDirsLastHit(Tail(dirs), basename, extension)
         IN  IF rest.val # NoPath \/ ~Exists(path)
             THEN [val |-> rest.val, fs |-> rest.fs + 1]
             ELSE [val |-> path, fs |-> rest.fs + 1]

\* _search_dirs; fs counts the os.path.exists calls made
RECURSIVE _search_dirs(_, _, _)
_search_dirs(dirs, basename, extension) ==
    IF dirs = <<>> THEN [val |-> NoPath, fs |-> 0]
    ELSE LET path == PathJoin(Head(dirs), basename \o extension)
         IN  IF Exists(path) THEN [val |-> path, fs |-> 1]
             ELSE LET rest == _search_dirs(Tail(dirs), basename, extension)
                  IN  [val |-> rest.val, fs |-> rest.fs + 1]

_find_config_files(project, prog, extension) ==
    LET prog1 == IF prog = None THEN Basename(argv[1]) ELSE prog
        cfg_dirs == _get_config_dirs(project)
        byProject == IF Truthy(project)
                     THEN _search_dirs(cfg_dirs, project, extension)
                     ELSE [val |-> NoPath, fs |-> 0]
        byProg == _search_dirs(cfg_dirs, prog1, extension)
        config_files == IF Truthy(project)
                        THEN <<byProject.val, byProg.val>>
                        ELSE <<byProg.val>>
    IN  [val |-> SelectSeq(config_files, LAMBDA f : f # NoPath),
         fs |-> byProject.fs + byProg.fs]

(***************************************************************************)
(* RawConfigParser.  A file's content is either unparsable or a set of     *)
(* sections with their options; a parser holds what it has read so far.    *)
(***************************************************************************)
EmptyCfg == [sections |-> {}, opts |-> {}]

\* the options of one parsed file laid over those read before
CfgMerge(cfg, content) ==
    [sections |-> cfg.sections \cup content.sections,
     opts |-> {o \in cfg.opts :
                  \A n \in content.opts : ~(n[1] = o[1] /\ n[2] = o[2])}
              \cup content.opts]

\* cfg.read(filenames): a file that cannot be opened is skipped, a file
\* that cannot be parsed raises
RECURSIVE CfgRead(_, _)
CfgRead(cfg, filenames) ==
    IF filenames = <<>> THEN [exc |-> "ok", cfg |-> cfg, fs |-> 0]
    ELSE LET f == Head(filenames)
         IN  IF ~Exists(f)
             THEN LET rest == CfgRead(cfg, Tail(filenames))
                  IN  [rest EXCEPT !.fs = @ + 1]
             ELSE IF ~files[f].ok
                  THEN [exc |-> "ParsingError", cfg |-> cfg, fs |-> 1]
                  ELSE LET rest == CfgRead(CfgMerge(cfg, files[f]),
                                           Tail(filenames))
                       IN  [rest EXCEPT !.fs = @ + 1]

\* cfg.get(section, option)
CfgGet(cfg, section, option) ==
    IF section \notin cfg.sections
    THEN [exc |-> "NoSectionError", val |-> None]
    ELSE IF \E o \in cfg.opts : o[1] = section /\ o[2] = option
         THEN [exc |-> "ok",
               val |-> (CHOOSE o \in cfg.opts :
                            o[1] = section /\ o[2] = option)[3]]
         ELSE [exc |-> "NoOptionError", val |-> None]

\* cfg.get(section, option, default) on a RawConfigParser: get takes
\* exactly a section and an option, a third positional argument is a
\* TypeError raised before anything is looked up
CfgGet3(cfg, section, option, default) ==
    [exc |-> "TypeError", val |-> None]

(***************************************************************************)
(* VersionInfo (oslo/version/version.py).  A method is an operator from a  *)
(* frame [self, cnt] to the frame it leaves, the exception it raises       *)
(* ("ok" when it returns) and the value it returns.                        *)
(***************************************************************************)
S_python == <<"p", "y", "t", "h", "o", "n", "-">>
S_release == <<"r", "e", "l", "e", "a", "s", "e">>
S_conf == <<".", "c", "o", "n", "f">>
S_setup_cfg == <<"s", "e", "t", "u", "p", ".", "c", "f", "g">>
S_metadata == <<"m", "e", "t", "a", "d", "a", "t", "a">>
K_vendor == <<"vendor">>
K_product == <<"product">>
K_package == <<"package">>
K_author == <<"author">>
K_description == <<"description">>

\* self._provider = None: the distribution that is no distribution
NoProvider == [name |-> None, version |-> None, Author |-> None,
               Summary |-> None]

\* VersionInfo.__init__
__init__(package) ==
    [package |-> package, _release |-> None, _version |-> None,
     _vendor |-> None, _product |-> None, _suffix |-> None,
     _cached_version |-> None, _provider |-> NoProvider, _loaded |-> FALSE]

NoCount == [index |-> 0, provider |-> 0, fallback |-> 0, fs |-> 0]

Ok(fr, val) == [self |-> fr.self, cnt |-> fr.cnt, exc |-> "ok", val |-> val]
Raise(fr, exc) == [self |-> fr.self, cnt |-> fr.cnt, exc |-> exc, val |-> None]

\* pkg_resources.get_provider(Requirement.parse(package)): the installed
\* distribution of that name, or DistributionNotFound (NoProvider here)
get_provider(package) ==
    IF \E d \in index : d.name = package
    THEN CHOOSE d \in index : d.name = package
    ELSE NoProvider

_get_provider(fr) ==
    IF fr.self._provider = NoProvider
    THEN Ok([self |-> [fr.self EXCEPT !._provider =
                                          get_provider(fr.self.package)],
             cnt |-> [fr.cnt EXCEPT !.index = @ + 1]],
            get_provider(fr.self.package))
    ELSE Ok(fr, fr.self._provider)

\* _get_version_from_pkg_resources swallowing the ImportError
GetVersionSwallowsImportError(fr) ==
    LET p == _get_provider(fr)
    IN  IF p.val # NoProvider
        THEN Ok([self |-> p.self,
                 cnt |-> [p.cnt EXCEPT !.provider = @ + 1]], p.val.version)
        ELSE LET f == [self |-> p.self,
                       cnt |-> [p.cnt EXCEPT !.fallback = @ + 1]]
             IN  IF packaging # None THEN Ok(f, packaging)
                 ELSE Ok(f, <<>>)

_get_version_from_pkg_resources(fr) ==
    LET p == _get_provider(fr)
    IN  IF p.val # NoProvider
        THEN Ok([self |-> p.self,
                 cnt |-> [p.cnt EXCEPT !.provider = @ + 1]], p.val.version)
        ELSE LET f == [self |-> p.self,
                       cnt |-> [p.cnt EXCEPT !.fallback = @ + 1]]
             IN  IF packaging # None THEN Ok(f, packaging)
                 ELSE Raise(f, "ImportError")

\* release without the "is None" test: computed anew on every call
ReleaseUncached(fr) ==
    LET r == _get_version_from_pkg_resources(fr)
    IN  IF r.exc # "ok" THEN r
        ELSE Ok([self |-> [r.self EXCEPT !._release = r.val],
                 cnt |-> r.cnt], r.val)

release(fr) ==
    IF fr.self._release = None
    THEN LET r == _get_version_from_pkg_resources(fr)
         IN  IF r.exc # "ok" THEN r
             ELSE Ok([self |-> [r.self EXCEPT !._release = r.val],
                      cnt |-> r.cnt], r.val)
    ELSE Ok(fr, fr.self._release)

version(fr) ==
    IF fr.self._version = None
    THEN LET r == release(fr)
         IN  IF r.exc # "ok" THEN r
             ELSE LET v == ShortVersion(r.val)
                  IN  IF v.exc # "ok" THEN Raise(r, v.exc)
                      ELSE Ok([self |-> [r.self EXCEPT !._version = v.val],
                               cnt |-> r.cnt], v.val)
    ELSE Ok(fr, fr.self._version)

_load_from_setup_cfg(fr) ==
    LET rd == CfgRead(EmptyCfg, << <<S_setup_cfg>> >>)
        f == [self |-> fr.self, cnt |-> [fr.cnt EXCEPT !.fs = @ + rd.fs]]
    IN  IF rd.exc # "ok" THEN Raise(f, rd.exc)
        ELSE LET a == CfgGet3(rd.cfg, S_metadata, K_author, None)
             IN  IF a.exc # "ok" THEN Raise(f, a.exc)
                 ELSE LET d == CfgGet3(rd.cfg, S_metadata, K_description, None)
                      IN  IF d.exc # "ok"
                          THEN Raise([f EXCEPT !.self._vendor = a.val], d.exc)
                          ELSE Ok([f EXCEPT !.self._vendor = a.val,
                                            !.self._product = d.val], None)

_load_from_pkg_info(fr, provider) ==
    Ok([self |-> [fr.self EXCEPT !._vendor = provider.Author,
                                 !._product = provider.Summary],
        cnt |-> [fr.cnt EXCEPT !.provider = @ + 1]], None)

\* the section name _load_from_cfg_file looks up
ProjectName(package) ==
    IF StartsWith(package, S_python)
    THEN SubSeq(package, 8, Len(package))
    ELSE package

_load_from_cfg_file(fr, cfgfile) ==
    LET rd == CfgRead(EmptyCfg, cfgfile)
        f == [self |-> fr.self, cnt |-> [fr.cnt EXCEPT !.fs = @ + rd.fs]]
        project_name == ProjectName(fr.self.package)
        v == CfgGet(rd.cfg, project_name, K_vendor)
        p == CfgGet(rd.cfg, project_name, K_product)
        s == CfgGet(rd.cfg, project_name, K_package)
    IN  IF rd.exc # "ok" THEN Raise(f, rd.exc)
        ELSE IF v.exc # "ok" THEN Raise(f, v.exc)
        ELSE IF p.exc # "ok"
             THEN Raise([f EXCEPT !.self._vendor = v.val], p.exc)
        ELSE IF s.exc # "ok"
             THEN Raise([f EXCEPT !.self._vendor = v.val,
                                  !.self._product = p.val], s.exc)
        ELSE Ok([f EXCEPT !.self._vendor = v.val,
                          !.self._product = p.val,
                          !.self._suffix = s.val], None)

\* _load_vendor_strings with the loaded flag set before the override step
\* instead of after it
LoadVendorStringsFlagFirst(fr) ==
    IF fr.self._loaded THEN Ok(fr, None)
    ELSE LET p == _get_provider(fr)
             m == IF p.val # NoProvider
                  THEN _load_from_pkg_info(p, p.val)
                  ELSE _load_from_setup_cfg(p)
             cfgfile == _find_config_files(S_release, None, S_conf)
             s == [self |-> [m.self EXCEPT !._loaded = TRUE],
                   cnt |-> [m.cnt EXCEPT !.fs = @ + cfgfile.fs]]
             o == IF cfgfile.val # <<>>
                  THEN _load_from_cfg_file(s, cfgfile.val)
                  ELSE Ok(s, None)
         IN  IF m.exc # "ok" THEN m
             ELSE IF o.exc # "ok" THEN o
             ELSE Ok(o, None)

_load_vendor_strings(fr) ==
    IF fr.self._loaded THEN Ok(fr, None)
    ELSE LET p == _get_provider(fr)
             m == IF p.val # NoProvider
                  THEN _load_from_pkg_info(p, p.val)
                  ELSE _load_from_setup_cfg(p)
             cfgfile == _find_config_files(S_release, None, S_conf)
             s == [self |-> m.self,
                   cnt |-> [m.cnt EXCEPT !.fs = @ + cfgfile.fs]]
             o == IF cfgfile.val # <<>>
                  THEN _load_from_cfg_file(s, cfgfile.val)
                  ELSE Ok(s, None)
         IN  IF m.exc # "ok" THEN m
             ELSE IF o.exc # "ok" THEN o
             ELSE Ok([o EXCEPT !.self._loaded = TRUE], None)

vendor(fr) ==
    LET l == _load_vendor_strings(fr)
    IN  IF l.exc # "ok" THEN l ELSE Ok(l, l.self._vendor)

product(fr) ==
    LET l == _load_vendor_strings(fr)
    IN  IF l.exc # "ok" THEN l ELSE Ok(l, l.self._product)

suffix(fr) ==
    LET l == _load_vendor_strings(fr)
    IN  IF l.exc # "ok" THEN l ELSE Ok(l, l.self._suffix)

(***************************************************************************)
(* VersionInfo (pbr/version.py), the legacy form: public fields and        *)
(* *_string methods.  _get_provider and _get_version_from_pkg_resources    *)
(* are the same code in both files (the legacy one lets the ImportError    *)
(* pass without printing) and are shared.                                  *)
(***************************************************************************)
Legacy__init__(package) ==
    [package |-> package, release |-> None, version |-> None,
     vendor |-> None, product |-> None, suffix |-> None,
     _cached_version |-> None, _provider |-> NoProvider, _loaded |-> FALSE]

release_string(fr) ==
    IF fr.self.release = None
    THEN LET r == _get_version_from_pkg_resources(fr)
         IN  IF r.exc # "ok" THEN r
             ELSE Ok([self |-> [r.self EXCEPT !.release = r.val],
                      cnt |-> r.cnt], r.val)
    ELSE Ok(fr, fr.self.release)

version_string(fr) ==
    IF fr.self.version = None
    THEN LET r == release_string(fr)
         IN  IF r.exc # "ok" THEN r
             ELSE LET v == ShortVersion(r.val)
                  IN  IF v.exc # "ok" THEN Raise(r, v.exc)
                      ELSE Ok([self |-> [r.self EXCEPT !.version = v.val],
                               cnt |-> r.cnt], v.val)
    ELSE Ok(fr, fr.self.version)

\* d2to1.util.cfg_to_args() reads ./setup.cfg; the keys of the result are
\* the options of its metadata section
Legacy_load_from_setup_cfg(fr) ==
    LET f == [self |-> fr.self, cnt |-> [fr.cnt EXCEPT !.fs = @ + 1]]
        rd == CfgRead(EmptyCfg, << <<S_setup_cfg>> >>)
        a == CfgGet(rd.cfg, S_metadata, K_author)
        d == CfgGet(rd.cfg, S_metadata, K_description)
    IN  IF ~Exists(<<S_setup_cfg>>) THEN Raise(f, "DistutilsFileError")
        ELSE IF rd.exc # "ok" THEN Raise(f, rd.exc)
        ELSE IF a.exc # "ok" THEN Raise(f, "KeyError")
        ELSE IF d.exc # "ok"
             THEN Raise([f EXCEPT !.self.vendor = a.val], "KeyError")
        ELSE Ok([f EXCEPT !.self.vendor = a.val,
                          !.self.product = d.val], None)

Legacy_load_from_pkg_info(fr, provider) ==
    Ok([self |-> [fr.self EXCEPT !.vendor = provider.Author,
                                 !.product = provider.Summary],
        cnt |-> [fr.cnt EXCEPT !.provider = @ + 1]], None)

Legacy_load_from_cfg_file(fr, cfgfile) ==
    LET rd == CfgRead(EmptyCfg, cfgfile)
        f == [self |-> fr.self, cnt |-> [fr.cnt EXCEPT !.fs = @ + rd.fs]]
        project_name == ProjectName(fr.self.package)
        v == CfgGet3(rd.cfg, project_name, K_vendor, fr.self.vendor)
        p == CfgGet3(rd.cfg, project_name, K_product, fr.self.product)
        s == CfgGet3(rd.cfg, project_name, K_package, fr.self.suffix)
    IN  IF rd.exc # "ok" THEN Ok(f, None)
        ELSE IF v.exc # "ok" THEN Raise(f, v.exc)
        ELSE IF p.exc # "ok"
             THEN Raise([f EXCEPT !.self.vendor = v.val], p.exc)
        ELSE IF s.exc # "ok"
             THEN Raise([f EXCEPT !.self.vendor = v.val,
                                  !.self.product = p.val], s.exc)
        ELSE Ok([f EXCEPT !.self.vendor = v.val,
                          !.self.product = p.val,
                          !.self.suffix = s.val], None)

Legacy_load_vendor_strings(fr) ==
    IF fr.self._loaded THEN Ok(fr, None)
    ELSE LET p == _get_provider(fr)
             m == IF p.val # NoProvider
                  THEN Legacy_load_from_pkg_info(p, p.val)
                  ELSE Legacy_load_from_setup_cfg(p)
             cfgfile == _find_config_files(S_release, None, S_conf)
             s == [self |-> m.self,
                   cnt |-> [m.cnt EXCEPT !.fs = @ + cfgfile.fs]]
             o == IF cfgfile.val # <<>>
                  THEN Legacy_load_from_cfg_file(s, cfgfile.val)
                  ELSE Ok(s, None)
         IN  IF m.exc # "ok" THEN m
             ELSE IF o.exc # "ok" THEN o
             ELSE Ok([o EXCEPT !.self._loaded = TRUE], None)

vendor_string(fr) ==
    LET l == Legacy_load_vendor_strings(fr)
    IN  IF l.exc # "ok" THEN l ELSE Ok(l, l.self.vendor)

product_string(fr) ==
    LET l == Legacy_load_vendor_strings(fr)
    IN  IF l.exc # "ok" THEN l ELSE Ok(l, l.self.product)

suffix_string(fr) ==
    LET l == Legacy_load_vendor_strings(fr)
    IN  IF l.exc # "ok" THEN l ELSE Ok(l, l.self.suffix)

\* "if not self._cached_version": None and the empty string are both false
cached_version_string(fr, prefix) ==
    IF ~Truthy(fr.self._cached_version)
    THEN LET v == version_string(fr)
         IN  IF v.exc # "ok" THEN v
             ELSE Ok([self |-> [v.self EXCEPT
                                    !._cached_version = prefix \o v.val],
                      cnt |-> v.cnt], prefix \o v.val)
    ELSE Ok(fr, fr.self._cached_version)

(***************************************************************************)
(* The environments the model draws from.                                  *)
(***************************************************************************)
S_myfoo == <<"m", "y", "f", "o", "o">>
S_foo == <<"f", "o", "o">>
S_blaa == <<"b", "l", "a", "a">>
S_json == <<".", "j", "s", "o", "n">>

Packages == {S_myfoo, S_python \o S_myfoo}

\* the installed distribution of a package
Dists(name) ==
    {[name |-> name, version |-> <<"1", ".", "2", ".", "a">>,
      Author |-> <<"acme">>, Summary |-> <<"widgets">>]}

\* what pbr.packaging.get_version returns: a release without a numeric
\* first segment
FallbackVersions == {<<"a", ".", "1">>}

\* the directories searched for project "release", in precedence order
ReleaseDirs == _get_config_dirs(S_release)

ConfPaths ==
    {PathJoin(ReleaseDirs[1], S_release \o S_conf),
     PathJoin(ReleaseDirs[4], S_release \o S_conf),
     PathJoin(ReleaseDirs[4], S_foo \o S_conf)}

Bad == [ok |-> FALSE, sections |-> {}, opts |-> {}]

Full(section, tag) ==
    [ok |-> TRUE, sections |-> {section},
     opts |-> {<<section, K_vendor, <<"bigco", tag>> >>,
               <<section, K_product, <<"product123", tag>> >>,
               <<section, K_package, <<"mysuffix", tag>> >>}]

NoPackageKey(section, tag) ==
    [ok |-> TRUE, sections |-> {section},
     opts |-> {<<section, K_vendor, <<"bigco", tag>> >>,
               <<section, K_product, <<"product123", tag>> >>}]

Contents ==
    {Bad, Full(S_myfoo, "A"), NoPackageKey(S_myfoo, "B")}

SetupCfg ==
    [ok |-> TRUE, sections |-> {S_metadata},
     opts |-> {<<S_metadata, K_author, <<"initech">> >>,
               <<S_metadata, K_description, <<"staplers">> >>}]

\* every filesystem holding ./setup.cfg and at most MaxFiles of the config
\* files
FileSystems ==
    {[p \in DOMAIN f \cup {<<S_setup_cfg>>} |->
         IF p = <<S_setup_cfg>> THEN SetupCfg ELSE f[p]] :
     f \in UNION {[P -> Contents] : P \in {Q \in SUBSET ConfPaths :
                                              Cardinality(Q) <= MaxFiles}}}

Accessors == {"release", "version", "vendor", "product", "suffix",
              "cached_version_string"}
NoCall == <<"NoCall">>
Threads == {1, 2}

\* the local variables of a thread inside vendor/product/suffix
NoLocals == [op |-> "none", provider |-> NoProvider, cfgfile |-> <<>>,
             cfg |-> EmptyCfg, ret |-> None, exc |-> "ok"]

(***************************************************************************)
(* Init: a VersionInfo has just been constructed for a package, in some    *)
(* environment.                                                            *)
(***************************************************************************)
InitIdle ==
    /\ ncalls = 0
    /\ nchanges = 0
    /\ cnt = NoCount
    /\ queries = 0
    /\ last = [op |-> "none", exc |-> "ok", val |-> None, arg |-> None,
               at |-> 0]
    /\ first = [a \in Accessors |-> NoCall]
    /\ pc = [t \in Threads |-> "idle"]
    /\ loc = [t \in Threads |-> NoLocals]
    /\ args = [project |-> None, prog |-> None, extension |-> None]
    /\ found = <<>>

Init ==
    /\ InitIdle
    /\ argv = << <<S_foo>> >>
    /\ \E package \in Packages :
          /\ self = __init__(package)
          /\ legacy = Legacy__init__(package)
          /\ index \in {{}} \cup {{d} : d \in Dists(package)}
    /\ packaging \in {None} \cup FallbackVersions
    /\ files \in FileSystems

(***************************************************************************)
(* The environment changes between two calls, one change at a time.  A    *)
(* change before the first call is an initial environment, a change after  *)
(* the last one is seen by no call.                                        *)
(***************************************************************************)
Changed ==
    /\ 0 < ncalls
    /\ ncalls < MaxCalls
    /\ nchanges < MaxChanges
    /\ nchanges = last.at
    /\ nchanges' = nchanges + 1
    /\ UNCHANGED <<self, legacy, cnt, queries, ncalls, last, first, pc, loc,
                   args, found, argv>>

Install ==
    /\ \E d \in Dists(self.package) : index' = {d}
    /\ index' # index
    /\ UNCHANGED <<packaging, files>>
    /\ Changed

Uninstall ==
    /\ index # {}
    /\ index' = {}
    /\ UNCHANGED <<packaging, files>>
    /\ Changed

SetPackaging ==
    /\ packaging' \in ({None} \cup FallbackVersions) \ {packaging}
    /\ UNCHANGED <<index, files>>
    /\ Changed

WriteFile ==
    /\ \E p \in ConfPaths, c \in Contents :
          /\ \/ p \in DOMAIN files
             \/ Cardinality(DOMAIN files \cap ConfPaths) < MaxFiles
          /\ files' = [q \in DOMAIN files \cup {p} |->
                          IF q = p THEN c ELSE files[q]]
    /\ files' # files
    /\ UNCHANGED <<index, packaging>>
    /\ Changed

RemoveFile ==
    /\ \E p \in DOMAIN files \cap ConfPaths :
          files' = [q \in DOMAIN files \ {p} |-> files[q]]
    /\ UNCHANGED <<index, packaging>>
    /\ Changed

(***************************************************************************)
(* The accessors of the property-style VersionInfo, one call each.         *)
(***************************************************************************)
Frame == [self |-> self, cnt |-> NoCount]

Call(op, r) ==
    /\ ncalls < MaxCalls
    /\ ncalls' = ncalls + 1
    /\ self' = r.self
    /\ cnt' = r.cnt
    /\ queries' = queries + r.cnt.index
    /\ last' = [op |-> op, exc |-> r.exc, val |-> r.val, arg |-> None,
                at |-> nchanges]
    /\ first' = IF r.exc = "ok" /\ first[op] = NoCall
                THEN [first EXCEPT ![op] = r.val]
                ELSE first
    /\ UNCHANGED <<index, packaging, files, argv, legacy, nchanges, pc, loc,
                   args, found>>

Release == Call("release", release(Frame))
Version == Call("version", version(Frame))
Vendor == Call("vendor", vendor(Frame))
Product == Call("product", product(Frame))
Suffix == Call("suffix", suffix(Frame))

Next ==
    \/ Release
    \/ Version
    \/ Vendor
    \/ Product
    \/ Suffix
    \/ Install
    \/ Uninstall
    \/ SetPackaging
    \/ WriteFile
    \/ RemoveFile

Spec == Init /\ [][Next]_vars

(***************************************************************************)
(* SpecVersion: version() applied to every release string of at most       *)
(* MaxLen characters over a digit, a letter and the dot.                   *)
(***************************************************************************)
Alphabet == {"1", "a", "."}

ReleaseStrings == UNION {[1..n -> Alphabet] : n \in 0..MaxLen}

InitVersion ==
    /\ InitIdle
    /\ argv = << <<S_foo>> >>
    /\ self = __init__(S_myfoo)
    /\ legacy = Legacy__init__(S_myfoo)
    /\ \E r \in ReleaseStrings :
          index = {[name |-> S_myfoo, version |-> r,
                    Author |-> <<"acme">>, Summary |-> <<"widgets">>]}
    /\ packaging = None
    /\ files = <<>>

NextVersion ==
    \/ Release
    \/ Version

SpecVersion == InitVersion /\ [][NextVersion]_vars

\* the release string the environment holds for the package
Installed == (CHOOSE d \in index : TRUE).version

StartsWithDigit(seg) == seg # <<>> /\ IsDigit(seg[1])

\* how many leading segments start with a digit
DigitRun(segs) ==
    CHOOSE k \in 0..Len(segs) :
        /\ \A i \in 1..k : StartsWithDigit(segs[i])
        /\ k < Len(segs) => ~StartsWithDigit(segs[k + 1])

RECURSIVE SumLen(_, _)
SumLen(segs, k) == IF k = 0 THEN 0 ELSE Len(segs[k]) + SumLen(segs, k - 1)

\* the first k segments of r with the dots between them, as a prefix of r
LongestDigitPrefix(r) ==
    LET k == DigitRun(Split(r))
    IN  IF k = 0 THEN <<>> ELSE SubSeq(r, 1, SumLen(Split(r), k) + k - 1)

\* C1: for every release string, empty segments included, version()
\* returns the dot-joined longest prefix of segments that start with a
\* digit (the empty string when the first segment does not).
C1_VersionIsLongestDigitPrefix ==
    last.op = "version" =>
        /\ last.exc = "ok"
        /\ last.val = LongestDigitPrefix(Installed)

\* C1 where the loop meets no empty segment: there the claim holds.
C1_HoldsWithoutEmptySegment ==
    (/\ last.op = "version"
     /\ \A i \in 1..Len(Split(Installed)) :
           i <= DigitRun(Split(Installed)) + 1 => Split(Installed)[i] # <<>>)
    => /\ last.exc = "ok"
       /\ last.val = LongestDigitPrefix(Installed)

(***************************************************************************)
(* SpecFind: _find_config_files applied to every choice of project,        *)
(* program name and extension, over every filesystem holding at most       *)
(* MaxFiles of the candidate files.                                        *)
(***************************************************************************)
Projects == {None, <<>>, S_blaa}
Progs == {None, S_foo, S_blaa}
Extensions == {S_conf, S_json, <<>>}

FindDirs == {Home \o <<Dot \o S_blaa>>, Home, <<Etc, S_blaa>>, <<Etc>>}

\* sys.argv[0] is "foo" or "bin/blaa"
Argvs == { << <<S_foo>> >>, << <<<<"b", "i", "n">>, S_blaa>> >> }

FindPaths ==
    {Append(d, n \o e) : d \in FindDirs, n \in {S_blaa, S_foo},
                         e \in {S_conf, S_json}}

InitFind ==
    /\ InitIdle
    /\ argv \in Argvs
    /\ self = __init__(S_myfoo)
    /\ legacy = Legacy__init__(S_myfoo)
    /\ index = {}
    /\ packaging = None
    /\ \E P \in SUBSET FindPaths :
          /\ Cardinality(P) <= MaxFiles
          /\ files = [p \in P |-> Bad]

FindConfigFiles ==
    /\ \E project \in Projects, prog \in Progs, extension \in Extensions :
          LET r == _find_config_files(project, prog, extension)
          IN  /\ args' = [project |-> project, prog |-> prog,
                          extension |-> extension]
              /\ found' = r.val
              /\ cnt' = [NoCount EXCEPT !.fs = r.fs]
    /\ last' = [op |-> "_find_config_files", exc |-> "ok", val |-> None,
                arg |-> None, at |-> 0]
    /\ UNCHANGED <<index, packaging, files, argv, self, legacy, queries,
                   ncalls, nchanges, first, pc, loc>>

NextFind == FindConfigFiles

SpecFind == InitFind /\ [][NextFind]_vars

\* the directory list the claim names, written out
ClaimedDirs(project) ==
    IF project # None /\ project # <<>>
    THEN << Home \o <<Dot \o project>>, Home, <<Etc, project>>, <<Etc>> >>
    ELSE << Home, <<Etc>> >>

\* the path of name in the earliest directory holding it, if any
EarliestHit(dirs, name) ==
    LET hits == {i \in 1..Len(dirs) : Append(dirs[i], name) \in DOMAIN files}
    IN  IF hits = {} THEN <<>>
        ELSE << Append(dirs[CHOOSE i \in hits : \A j \in hits : i <= j],
                       name) >>

ClaimedFound(a) ==
    LET dirs == ClaimedDirs(a.project)
        programName == IF a.prog = None THEN argv[1][Len(argv[1])]
                       ELSE a.prog
    IN  (IF a.project # None /\ a.project # <<>>
         THEN EarliestHit(dirs, a.project \o a.extension)
         ELSE <<>>)
        \o EarliestHit(dirs, programName \o a.extension)

\* C2: _find_config_files returns 0, 1 or 2 paths: the project-named file
\* of the earliest directory holding it (only when a project is given),
\* then the program-named file of the earliest directory holding it; a
\* miss contributes nothing, another extension never matches, the two
\* names are searched independently, and the program name defaults to the
\* base name of argv[0].
C2_FindConfigFiles ==
    last.op = "_find_config_files" =>
        /\ Len(found) \in 0..2
        /\ found = ClaimedFound(args)
        /\ \A i \in 1..Len(found) : found[i] \in DOMAIN files

\* C2 witness: the project file is found in ~/.blaa and the file named
\* after argv[0] in /etc, the last directory.
C2_Witness ==
    /\ last.op = "_find_config_files"
    /\ args = [project |-> S_blaa, prog |-> None, extension |-> S_conf]
    /\ found = << Home \o <<Dot \o S_blaa, S_blaa \o S_conf>>,
                  <<Etc, S_foo \o S_conf>> >>

(***************************************************************************)
(* Properties of the property-style VersionInfo (Spec).                    *)
(***************************************************************************)
IsCall == ncalls' = ncalls + 1
VendorStrings == {"vendor", "product", "suffix"}

\* the section an override is looked up under: the package name without a
\* leading "python-"
SectionOf(package) ==
    IF Len(package) >= 7 /\ SubSeq(package, 1, 7) = S_python
    THEN SubSeq(package, 8, Len(package))
    ELSE package

\* the override file: release.conf of the earliest directory holding it
OverrideFile == EarliestHit(ClaimedDirs(S_release), S_release \o S_conf)

\* the file named after the invoking program, likewise
ProgramFile ==
    EarliestHit(ClaimedDirs(S_release), argv[1][Len(argv[1])] \o S_conf)

HasOption(content, section, key) ==
    /\ content.ok
    /\ \E o \in content.opts : o[1] = section /\ o[2] = key

OptionOf(content, section, key) ==
    (CHOOSE o \in content.opts : o[1] = section /\ o[2] = key)[3]

KeyOf(op) ==
    IF op = "vendor" THEN K_vendor
    ELSE IF op = "product" THEN K_product
    ELSE K_package

\* the provider a call made now would work with
Resolvable ==
    IF self._provider # NoProvider THEN self._provider
    ELSE IF \E d \in index : d.name = self.package
         THEN CHOOSE d \in index : d.name = self.package
         ELSE NoProvider

\* C3: when an override file is found and holds vendor, product and
\* package in the section named after the package (without "python-"),
\* vendor(), product() and suffix() return those values, whatever the
\* provider or the build description supplied, and self.package is not
\* altered.
C3_OverrideReplacesMetadata ==
    [][(/\ IsCall
        /\ last'.op \in VendorStrings
        /\ ~self._loaded
        /\ OverrideFile # <<>>
        /\ \A k \in {K_vendor, K_product, K_package} :
              HasOption(files[OverrideFile[1]], SectionOf(self.package), k))
       => /\ last'.exc = "ok"
          /\ last'.val = OptionOf(files[OverrideFile[1]],
                                  SectionOf(self.package), KeyOf(last'.op))
          /\ self'.package = self.package]_vars

\* C4: once an accessor has returned, every later call of it returns the
\* same value and accesses neither the working set, the provider, the
\* fallback nor the filesystem, whatever has changed in between; the first
\* of vendor/product/suffix to return has loaded all three.
C4_Memoized ==
    [][IsCall =>
        /\ \A op \in Accessors :
              (last'.op = op /\ first[op] # NoCall)
              => /\ last'.exc = "ok"
                 /\ last'.val = first[op]
                 /\ cnt' = NoCount
        /\ (/\ last'.op \in VendorStrings
            /\ \E op \in VendorStrings : first[op] # NoCall)
           => /\ last'.exc = "ok"
              /\ cnt' = NoCount
              /\ self' = self]_vars

\* C4 witness: version() has returned its first value a second time after
\* the package was installed with another version than the cached one.
C4_Witness ==
    /\ ncalls = 2
    /\ last.op = "version"
    /\ last.exc = "ok"
    /\ last.at = 1
    /\ cnt = NoCount
    /\ first["version"] = last.val
    /\ \E d \in index : d.name = self.package /\ d.version # self._release

\* C6: a release() that has nothing cached returns the version of the
\* provider when one can be resolved, else the version of the build-time
\* fallback; when that is unavailable too the call raises, having asked
\* each source once, and neither release nor version is cached (the same
\* for a version() that has to compute the release).
C6_ReleaseSources ==
    [][(/\ IsCall
        /\ last'.op \in {"release", "version"}
        /\ self._release = None)
       => IF Resolvable # NoProvider
          THEN last'.op = "release"
               => /\ last'.exc = "ok"
                  /\ last'.val = Resolvable.version
                  /\ self'._release = Resolvable.version
          ELSE IF packaging # None
          THEN last'.op = "release"
               => /\ last'.exc = "ok"
                  /\ last'.val = packaging
                  /\ self'._release = packaging
          ELSE /\ last'.exc = "ImportError"
               /\ self'._release = None
               /\ self'._version = None
               /\ cnt'.index = 1
               /\ cnt'.fallback = 1
               /\ cnt'.provider = 0]_vars

\* C6 witness: release() has raised for a package that is neither
\* installed nor covered by the fallback, and nothing is cached.
C6_Witness ==
    /\ last.op = "release"
    /\ last.exc = "ImportError"
    /\ self._release = None
    /\ self._version = None
    /\ cnt.index = 1
    /\ cnt.fallback = 1

\* C7: the working set is queried for the provider at most once per
\* instance: after the first lookup, found or not, no call looks it up
\* again.
C7_ProviderResolvedOnce ==
    [][queries > 0 => queries' = queries]_vars

\* the build description: ./setup.cfg
SetupOption(key) == OptionOf(files[<<S_setup_cfg>>], S_metadata, key)

\* C9: when no override file is found, vendor() and product() return the
\* provider's Author and Summary when a provider is resolved and the
\* author and description of the build description otherwise, suffix()
\* returns None, the loaded flag is set and nothing is raised.
C9_DefaultsWithoutOverride ==
    [][(/\ IsCall
        /\ last'.op \in VendorStrings
        /\ ~self._loaded
        /\ OverrideFile = <<>>
        /\ ProgramFile = <<>>)
       => /\ last'.exc = "ok"
          /\ self'._loaded
          /\ last'.op = "vendor" =>
                last'.val = IF Resolvable # NoProvider
                            THEN Resolvable.Author
                            ELSE SetupOption(K_author)
          /\ last'.op = "product" =>
                last'.val = IF Resolvable # NoProvider
                            THEN Resolvable.Summary
                            ELSE SetupOption(K_description)
          /\ last'.op = "suffix" => last'.val = None]_vars

\* C9 where a provider is resolved: there the claim holds.
C9_HoldsWithProvider ==
    [][(/\ IsCall
        /\ last'.op \in VendorStrings
        /\ ~self._loaded
        /\ OverrideFile = <<>>
        /\ ProgramFile = <<>>
        /\ Resolvable # NoProvider)
       => /\ last'.exc = "ok"
          /\ self'._loaded
          /\ last'.op = "vendor" => last'.val = Resolvable.Author
          /\ last'.op = "product" => last'.val = Resolvable.Summary
          /\ last'.op = "suffix" => last'.val = None]_vars

\* C3 where a provider is resolved and no file named after the program is
\* found: there the claim holds.
C3_HoldsWithProviderAlone ==
    [][(/\ IsCall
        /\ last'.op \in VendorStrings
        /\ ~self._loaded
        /\ Resolvable # NoProvider
        /\ ProgramFile = <<>>
        /\ OverrideFile # <<>>
        /\ \A k \in {K_vendor, K_product, K_package} :
              HasOption(files[OverrideFile[1]], SectionOf(self.package), k))
       => /\ last'.exc = "ok"
          /\ last'.val = OptionOf(files[OverrideFile[1]],
                                  SectionOf(self.package), KeyOf(last'.op))
          /\ self'.package = self.package]_vars

(***************************************************************************)
(* SpecLegacy: the legacy VersionInfo in the same environments.            *)
(***************************************************************************)
Prefixes == {<<>>, <<"v">>}

LegacyFrame == [self |-> legacy, cnt |-> NoCount]

LegacyCall(op, arg, r) ==
    /\ ncalls < MaxCalls
    /\ ncalls' = ncalls + 1
    /\ legacy' = r.self
    /\ cnt' = r.cnt
    /\ queries' = queries + r.cnt.index
    /\ last' = [op |-> op, exc |-> r.exc, val |-> r.val, arg |-> arg,
                at |-> nchanges]
    /\ first' = IF r.exc = "ok" /\ first[op] = NoCall
                THEN [first EXCEPT ![op] = r.val]
                ELSE first
    /\ UNCHANGED <<index, packaging, files, argv, self, nchanges, pc, loc,
                   args, found>>

ReleaseString == LegacyCall("release", None, release_string(LegacyFrame))
VersionString == LegacyCall("version", None, version_string(LegacyFrame))
VendorString == LegacyCall("vendor", None, vendor_string(LegacyFrame))
ProductString == LegacyCall("product", None, product_string(LegacyFrame))
SuffixString == LegacyCall("suffix", None, suffix_string(LegacyFrame))
CachedVersionString ==
    \E prefix \in Prefixes :
        LegacyCall("cached_version_string", prefix,
                   cached_version_string(LegacyFrame, prefix))

NextLegacy ==
    \/ ReleaseString
    \/ VersionString
    \/ VendorString
    \/ ProductString
    \/ SuffixString
    \/ CachedVersionString
    \/ Install
    \/ Uninstall
    \/ SetPackaging
    \/ WriteFile
    \/ RemoveFile

SpecLegacy == Init /\ [][NextLegacy]_vars

C5_HoldsWhenNotEmpty ==
    [][(/\ IsCall
        /\ last'.op = "cached_version_string"
        /\ first["cached_version_string"] # NoCall
        /\ first["cached_version_string"] # <<>>)
       => /\ last'.exc = "ok"
          /\ last'.val = first["cached_version_string"]
          /\ cnt' = NoCount]_vars

\* the provider a call on the legacy instance made now would work with
LegacyResolvable ==
    IF legacy._provider # NoProvider THEN legacy._provider
    ELSE IF \E d \in index : d.name = legacy.package
         THEN CHOOSE d \in index : d.name = legacy.package
         ELSE NoProvider

\* the value a field has before the override step
MetadataValue(op) ==
    IF op = "vendor"
    THEN (IF LegacyResolvable # NoProvider THEN LegacyResolvable.Author
          ELSE SetupOption(K_author))
    ELSE IF op = "product"
    THEN (IF LegacyResolvable # NoProvider THEN LegacyResolvable.Summary
          ELSE SetupOption(K_description))
    ELSE None

\* C10: in the legacy form, when the override file that is found cannot be
\* parsed, or lacks the section of the package, or lacks one of the keys,
\* nothing is raised, a field whose key is missing keeps the value it had
\* before the override step and a field whose key is present takes the
\* value of the key.
C10_LegacyKeepsPriorValues ==
    [][(/\ IsCall
        /\ last'.op \in VendorStrings
        /\ ~legacy._loaded
        /\ OverrideFile # <<>>
        /\ ProgramFile = <<>>
        /\ \E k \in {K_vendor, K_product, K_package} :
              ~HasOption(files[OverrideFile[1]], SectionOf(legacy.package),
                         k))
       => /\ last'.exc = "ok"
          /\ last'.val =
                IF HasOption(files[OverrideFile[1]],
                             SectionOf(legacy.package), KeyOf(last'.op))
                THEN OptionOf(files[OverrideFile[1]],
                              SectionOf(legacy.package), KeyOf(last'.op))
                ELSE MetadataValue(last'.op)]_vars

\* C10 where the override file cannot be parsed: there the claim holds.
C10_HoldsWhenUnparsable ==
    [][(/\ IsCall
        /\ last'.op \in VendorStrings
        /\ ~legacy._loaded
        /\ OverrideFile # <<>>
        /\ ProgramFile = <<>>
        /\ ~files[OverrideFile[1]].ok)
       => /\ last'.exc = "ok"
          /\ last'.val = MetadataValue(last'.op)]_vars

(***************************************************************************)
(* SpecThreads: two threads call vendor, product or suffix on one fresh    *)
(* instance.  A step is one statement of _load_vendor_strings and of the   *)
(* methods it calls; the environment does not change meanwhile.            *)
(***************************************************************************)
UNCHANGED_env == UNCHANGED <<index, packaging, files, argv, legacy, cnt,
                             queries, ncalls, nchanges, last, first, args,
                             found>>

Goto(t, label) == pc' = [pc EXCEPT ![t] = label]

\* the property getter is entered
Begin(t) ==
    /\ pc[t] = "idle"
    /\ \E op \in VendorStrings : loc' = [loc EXCEPT ![t].op = op]
    /\ Goto(t, "check")
    /\ UNCHANGED self
    /\ UNCHANGED_env

\* if self._loaded: return
CheckLoaded(t) ==
    /\ pc[t] = "check"
    /\ Goto(t, IF self._loaded THEN "read" ELSE "get_provider")
    /\ UNCHANGED <<self, loc>>
    /\ UNCHANGED_env

\* provider = self._get_provider()
GetProvider(t) ==
    /\ pc[t] = "get_provider"
    /\ LET p == _get_provider([self |-> self, cnt |-> NoCount])
       IN  /\ self' = p.self
           /\ loc' = [loc EXCEPT ![t].provider = p.val]
           /\ Goto(t, IF p.val # NoProvider THEN "pkg_info_vendor"
                      ELSE "setup_cfg")
    /\ UNCHANGED_env

\* self._load_from_setup_cfg()
LoadFromSetupCfg(t) ==
    /\ pc[t] = "setup_cfg"
    /\ LET r == _load_from_setup_cfg([self |-> self, cnt |-> NoCount])
       IN  /\ self' = r.self
           /\ loc' = [loc EXCEPT ![t].exc = r.exc]
           /\ Goto(t, IF r.exc # "ok" THEN "raised" ELSE "find")
    /\ UNCHANGED_env

\* self._vendor = pkg_info['Summary']: the two headers mixed up
PkgInfoVendorFromSummary(t) ==
    /\ pc[t] = "pkg_info_vendor"
    /\ self' = [self EXCEPT !._vendor = loc[t].provider.Summary]
    /\ Goto(t, "pkg_info_product")
    /\ UNCHANGED loc
    /\ UNCHANGED_env

\* self._vendor = pkg_info['Author']
PkgInfoVendor(t) ==
    /\ pc[t] = "pkg_info_vendor"
    /\ self' = [self EXCEPT !._vendor = loc[t].provider.Author]
    /\ Goto(t, "pkg_info_product")
    /\ UNCHANGED loc
    /\ UNCHANGED_env

\* self._product = pkg_info['Summary']
PkgInfoProduct(t) ==
    /\ pc[t] = "pkg_info_product"
    /\ self' = [self EXCEPT !._product = loc[t].provider.Summary]
    /\ Goto(t, "find")
    /\ UNCHANGED loc
    /\ UNCHANGED_env

\* cfgfile = _find_config_files("release"); if cfgfile: ...
FindRelease(t) ==
    /\ pc[t] = "find"
    /\ LET cfgfile == _find_config_files(S_release, None, S_conf).val
       IN  /\ loc' = [loc EXCEPT ![t].cfgfile = cfgfile]
           /\ Goto(t, IF cfgfile # <<>> THEN "cfg_read" ELSE "set_loaded")
    /\ UNCHANGED self
    /\ UNCHANGED_env

\* cfg.read(cfgfile)
CfgFileRead(t) ==
    /\ pc[t] = "cfg_read"
    /\ LET rd == CfgRead(EmptyCfg, loc[t].cfgfile)
       IN  /\ loc' = [loc EXCEPT ![t].cfg = rd.cfg, ![t].exc = rd.exc]
           /\ Goto(t, IF rd.exc # "ok" THEN "raised" ELSE "cfg_vendor")
    /\ UNCHANGED self
    /\ UNCHANGED_env

\* self._<field> = cfg.get(project_name, key)
CfgAssign(t, label, key, next) ==
    /\ pc[t] = label
    /\ LET g == CfgGet(loc[t].cfg, ProjectName(self.package), key)
       IN  /\ loc' = [loc EXCEPT ![t].exc = g.exc]
           /\ self' = IF g.exc # "ok" THEN self
                      ELSE IF key = K_vendor
                           THEN [self EXCEPT !._vendor = g.val]
                      ELSE IF key = K_product
                           THEN [self EXCEPT !._product = g.val]
                      ELSE [self EXCEPT !._suffix = g.val]
           /\ Goto(t, IF g.exc # "ok" THEN "raised" ELSE next)
    /\ UNCHANGED_env

CfgVendor(t) == CfgAssign(t, "cfg_vendor", K_vendor, "cfg_product")
CfgProduct(t) == CfgAssign(t, "cfg_product", K_product, "cfg_suffix")
CfgSuffix(t) == CfgAssign(t, "cfg_suffix", K_package, "set_loaded")

\* self._loaded = True
SetLoaded(t) ==
    /\ pc[t] = "set_loaded"
    /\ self' = [self EXCEPT !._loaded = TRUE]
    /\ Goto(t, "read")
    /\ UNCHANGED loc
    /\ UNCHANGED_env

\* return self._vendor / self._product / self._suffix
ReadField(t) ==
    /\ pc[t] = "read"
    /\ loc' = [loc EXCEPT ![t].ret =
                  IF loc[t].op = "vendor" THEN self._vendor
                  ELSE IF loc[t].op = "product" THEN self._product
                  ELSE self._suffix]
    /\ Goto(t, "done")
    /\ UNCHANGED self
    /\ UNCHANGED_env

InitThreads ==
    /\ InitIdle
    /\ argv = << <<S_foo>> >>
    /\ self = __init__(S_myfoo)
    /\ legacy = Legacy__init__(S_myfoo)
    /\ index \in {{}} \cup {{d} : d \in Dists(S_myfoo)}
    /\ packaging = None
    /\ files \in FileSystems

NextThreads ==
    \E t \in Threads :
        \/ Begin(t)
        \/ CheckLoaded(t)
        \/ GetProvider(t)
        \/ LoadFromSetupCfg(t)
        \/ PkgInfoVendor(t)
        \/ PkgInfoProduct(t)
        \/ FindRelease(t)
        \/ CfgFileRead(t)
        \/ CfgVendor(t)
        \/ CfgProduct(t)
        \/ CfgSuffix(t)
        \/ SetLoaded(t)
        \/ ReadField(t)

SpecThreads == InitThreads /\ [][NextThreads]_vars

\* what the accessor returns on a fresh instance when called alone
SingleThreaded(op) ==
    LET fresh == [self |-> __init__(self.package), cnt |-> NoCount]
    IN  IF op = "vendor" THEN vendor(fresh).val
        ELSE IF op = "product" THEN product(fresh).val
        ELSE suffix(fresh).val

\* a provider is installed, the override file holds all three keys for the
\* package and no file named after the program is found
RaceSetting ==
    /\ index # {}
    /\ ProgramFile = <<>>
    /\ OverrideFile # <<>>
    /\ \A k \in {K_vendor, K_product, K_package} :
          HasOption(files[OverrideFile[1]], SectionOf(self.package), k)

OverrideValue(op) ==
    OptionOf(files[OverrideFile[1]], SectionOf(self.package), KeyOf(op))

ProviderValue(op) ==
    IF op = "vendor" THEN (CHOOSE d \in index : TRUE).Author
    ELSE IF op = "product" THEN (CHOOSE d \in index : TRUE).Summary
    ELSE None

MetadataOf(op) ==
    IF op = "vendor" THEN Resolvable.Author
    ELSE IF op = "product" THEN Resolvable.Summary
    ELSE None

\* C11: the override values come from release.conf of the earliest
\* directory of [~/.release, ~, /etc/release, /etc] holding it; a file
\* named after the invoking program is not consulted: with a provider
\* resolved, a first vendor(), product() or suffix() returns the value of
\* that release.conf when it holds all three keys, and the metadata value
\* (None for suffix) when there is no release.conf, whether or not a
\* program-named file exists.
C11_OverrideFromReleaseConfOnly ==
    [][(/\ IsCall
        /\ last'.op \in VendorStrings
        /\ ~self._loaded
        /\ Resolvable # NoProvider)
       => /\ (/\ OverrideFile # <<>>
              /\ \A k \in {K_vendor, K_product, K_package} :
                    HasOption(files[OverrideFile[1]],
                              SectionOf(self.package), k))
             => /\ last'.exc = "ok"
                /\ last'.val = OptionOf(files[OverrideFile[1]],
                                        SectionOf(self.package),
                                        KeyOf(last'.op))
          /\ OverrideFile = <<>>
             => /\ last'.exc = "ok"
                /\ last'.val = MetadataOf(last'.op)]_vars

(***************************************************************************)
(* The loaded flag and a load that raises (Spec).                          *)
(***************************************************************************)
\* the accessor called on this instance with vendor, product and suffix
\* as the constructor left them
FromTheStart(op) ==
    LET clean == [self |-> [self EXCEPT !._vendor = None,
                                        !._product = None,
                                        !._suffix = None],
                  cnt |-> NoCount]
    IN  IF op = "vendor" THEN vendor(clean)
        ELSE IF op = "product" THEN product(clean)
        ELSE suffix(clean)

\* C12: the loaded flag becomes true only in a vendor(), product() or
\* suffix() call whose whole load completed without error; a call on an
\* instance whose flag is false runs the whole load again (the metadata
\* step reads the provider or the build description), leaves the flag
\* false exactly when it raises, and returns and stores what the load
\* gives from the start, whatever an earlier load that raised has left in
\* the fields.
C12_LoadedOnlyAfterWholeLoad ==
    [][/\ (self'._loaded /\ ~self._loaded)
          => /\ IsCall
             /\ last'.op \in VendorStrings
             /\ last'.exc = "ok"
       /\ (IsCall /\ last'.op \in VendorStrings /\ ~self._loaded)
          => LET r == FromTheStart(last'.op)
             IN  /\ self'._loaded <=> last'.exc = "ok"
                 /\ last'.exc = r.exc
                 /\ last'.val = r.val
                 /\ cnt' = r.cnt
                 /\ cnt'.provider + cnt'.fs >= 1
                 /\ last'.exc = "ok"
                    => /\ self'._vendor = r.self._vendor
                       /\ self'._product = r.self._product
                       /\ self'._suffix = r.self._suffix]_vars

\* C12 witness: vendor() has returned the provider's Author in its second
\* call, with no config file left to find.  The provider was resolved by
\* the first call (this call did not query the working set), so the first
\* call was an access to vendor, product or suffix, and it returned
\* nothing (no accessor but vendor has a first value, and vendor had to
\* load): its load raised in the override step and left the flag false.
C12_Witness ==
    /\ ncalls = 2
    /\ last.op = "vendor"
    /\ last.exc = "ok"
    /\ last.at = 1
    /\ self._loaded
    /\ last.val = Resolvable.Author
    /\ OverrideFile = <<>>
    /\ ProgramFile = <<>>
    /\ queries = 1
    /\ cnt.index = 0
    /\ cnt.provider = 1
    /\ \A op \in Accessors \ {"vendor"} : first[op] = NoCall

=============================================================================
